---- MODULE Spec2Model ----
\* Model of RecordStore (packages/sdk/src/models/record_store.js): field
\* retain counts, deduplicated cell-value loads, debounced unloads and the
\* record map they maintain.
EXTENDS Integers, Sequences, FiniteSets, TLC

\* ---------------------------------------------------------------- bounds
MaxLoads == 2
MaxLoadsWithData == 1
MaxUnloads == 1
MaxUnloadsTimed == 2
MaxTime == 3

\* ---------------------------------------------------------------- constants
UnloadDelay == 2

Fields == {"f1", "f2"}
PrimaryFieldId == "f1"
Recs == {"r1"}
Vals == {"x", "y"}
Undef == "undefined"
CellVals == Vals \cup {Undef}
NoBatch == 0
CallIds == 1..MaxLoads

FieldLists == {<<"f1">>, <<"f2">>, <<"f1", "f2">>, <<"f1", "f1">>}

Range(s) == {s[i] : i \in DOMAIN s}
Count(s, x) == Cardinality({i \in DOMAIN s : s[i] = x})

EmptyCells == [f \in Fields |-> Undef]
AbsentRec == [present |-> FALSE, cells |-> EmptyCells]

VARIABLES
    retain,        \* _cellValuesRetainCountByFieldId
    loaded,        \* _areCellValuesLoadedByFieldId
    pending,       \* _pendingCellValuesLoadPromiseByFieldId (batch id or NoBatch)
    bfields,       \* field list each batch fetch was issued for
    bst,           \* state of each batch promise
    cfields,       \* field list of each loadCellValuesInFieldIdsAsync call
    cwaits,        \* batches each call awaits with Promise.all
    cst,           \* state of each call's returned promise
    recsDefined,   \* this._data.recordsById !== undefined
    recs,          \* this._data.recordsById
    dataLoaded,    \* isDataLoaded (whole table loaded)
    timers,        \* pending unload setTimeout callbacks, in firing order
    now,           \* abstract clock
    nLoads, nUnloads,
    \* history of backend calls and of the operations, for the properties
    unsubCalls, zeroAt, unsubInPeriod, gapExceeded,
    lastResp, callZeroed, retainedTotal, releasedTotal, overReleased,
    wrappers,      \* record ids with a Record in _recordModelsById
    broadcast,     \* keys passed to _onChange by the latest load completion
    watchCount,    \* outstanding watch(keys) calls, per key list
    \* triggerOnChangeForDirtyPaths and getRecordByIdIfExists (two records)
    \* (dNotifs, dForwarded: the _onChange calls and the Records given a
    \* per-record diff by triggerOnChangeForDirtyPaths in the latest step;
    \* dLastDiff: the latest dirty paths)
    dRecs, dMeta, dWrappers, dEver, dNextWrapper, dNotifs, dForwarded,
    dLastDiff, dDiffs, dGets, dLastGet,
    \* createdTime / commentCount checks of the merge loop (two records)
    mRecs, mSeen, mFailed, mLastResp, mLoads, mPushes,
    \* whole-table retention of the base class (AbstractModelWithAsyncData)
    dataRetain, dataLoadPending, dataUnloadTimers

diffVars == <<dRecs, dMeta, dWrappers, dEver, dNextWrapper, dNotifs, dForwarded,
              dLastDiff, dDiffs, dGets, dLastGet>>
metaVars == <<mRecs, mSeen, mFailed, mLastResp, mLoads, mPushes>>

storeVars == <<retain, loaded, pending, bfields, bst, cfields, cwaits, cst,
               recsDefined, recs, dataLoaded, timers, now, nLoads, nUnloads,
               unsubCalls, zeroAt, unsubInPeriod,
               gapExceeded, lastResp, callZeroed, retainedTotal, releasedTotal,
               overReleased, wrappers, broadcast>>
dataRetainVars == <<dataRetain, dataLoadPending, dataUnloadTimers>>
mainVars == <<storeVars, watchCount, dataRetainVars>>

vars == <<retain, loaded, pending, bfields, bst, cfields, cwaits, cst,
          recsDefined, recs, dataLoaded, timers, now, nLoads, nUnloads,
          unsubCalls, zeroAt, unsubInPeriod,
          gapExceeded, lastResp, callZeroed, retainedTotal, releasedTotal,
          overReleased, wrappers, broadcast, watchCount, diffVars, metaVars,
          dataRetainVars>>


\* ------------------------------------------------ watchable keys (lines 15-41)
WatchableCellValuesInFieldKeyPrefix == "cellValuesInField:"
WatchableRecordIdsInViewKeyPrefix == "recordIdsInView:"
WatchableRecordColorsInViewKeyPrefix == "recordColorsInView:"
WatchableRecordStoreKeys == {"records", "recordIds", "cellValues"}
\* String.prototype.startsWith and key.substring(p.length).
StartsWith(k, p) == Len(k) >= Len(p) /\ SubSeq(k, 1, Len(p)) = p
KeySuffix(k, p) == SubSeq(k, Len(p) + 1, Len(k))
\* Key lists passed to watch / unwatch.
KeyLists == {<<"cellValuesInField:f2">>,
             <<"records", "recordIds">>,
             <<"cellValues", "recordIdsInView:v1", "cellValuesInField:f1", "bogus">>}

\* Keys returned by _loadCellValuesInFieldIdsAsync (lines 288-292) for the
\* fetched field list fs.
ChangedKeys(fs) ==
    [i \in 1..Len(fs) |-> WatchableCellValuesInFieldKeyPrefix \o fs[i]]
        \o <<"records", "recordIds", "cellValues">>

\* ------------------------- triggerOnChangeForDirtyPaths with two records
DRecs == {"R1", "R2"}
DFields == {"F1", "F2"}
NoWrapper == 0
\* A notification passed to _onChange; unused parts are empty.
Notif(key, added, removed, rids, fids) ==
    [key |-> key, addedRecordIds |-> added, removedRecordIds |-> removed,
     recordIds |-> rids, fieldIds |-> fids]
NoGet == [id |-> "none", kind |-> "none", wrapper |-> NoWrapper, cached |-> FALSE]
DiffInit ==
    /\ dRecs = {}
    /\ dMeta = FALSE
    /\ dWrappers = [r \in DRecs |-> NoWrapper]
    /\ dEver = [r \in DRecs |-> {}]
    /\ dNextWrapper = 0
    /\ dNotifs = <<>>
    /\ dForwarded = {}
    /\ dLastDiff = <<>>
    /\ dDiffs = 0
    /\ dGets = 0
    /\ dLastGet = NoGet

\* ------------------- createdTime / commentCount of the merge, two records
MetaRecs == {"m1", "m2"}
CommentCounts == {0, 1}
CreatedTimes == {"t1", "t2"}
MetaAbsent == [present |-> FALSE, commentCount |-> 0, createdTime |-> "t1"]
MetaOf(rec) == [commentCount |-> rec.commentCount, createdTime |-> rec.createdTime]
MetaInit ==
    /\ mRecs = [r \in MetaRecs |-> MetaAbsent]
    /\ mSeen = [r \in MetaRecs |-> {}]
    /\ mFailed = 0
    /\ mLastResp = [r \in MetaRecs |-> MetaAbsent]
    /\ mLoads = 0
    /\ mPushes = 0

Init ==
    /\ retain = [f \in Fields |-> 0]
    /\ loaded = [f \in Fields |-> FALSE]
    /\ pending = [f \in Fields |-> NoBatch]
    /\ bfields = [i \in CallIds |-> <<>>]
    /\ bst = [i \in CallIds |-> "none"]
    /\ cfields = [i \in CallIds |-> <<>>]
    /\ cwaits = [i \in CallIds |-> {}]
    /\ cst = [i \in CallIds |-> "none"]
    /\ recsDefined = FALSE
    /\ recs = [r \in Recs |-> AbsentRec]
    /\ dataLoaded = FALSE
    /\ timers = <<>>
    /\ now = 0
    /\ nLoads = 0
    /\ nUnloads = 0
    /\ unsubCalls = [f \in Fields |-> 0]
    /\ zeroAt = [f \in Fields |-> 0]
    /\ unsubInPeriod = [f \in Fields |-> 0]
    /\ gapExceeded = [f \in Fields |-> FALSE]
    /\ lastResp = [r \in Recs |-> FALSE]
    /\ callZeroed = [i \in CallIds |-> {}]
    /\ retainedTotal = [f \in Fields |-> 0]
    /\ releasedTotal = [f \in Fields |-> 0]
    /\ overReleased = [f \in Fields |-> FALSE]
    /\ wrappers = {}
    /\ broadcast = <<>>
    /\ watchCount = [kl \in KeyLists |-> 0]
    /\ DiffInit
    /\ MetaInit
    /\ dataRetain = 0
    /\ dataLoadPending = FALSE
    /\ dataUnloadTimers = 0

\* areCellValuesLoadedForFieldId
AreCellValuesLoadedForFieldId(f) == dataLoaded \/ loaded[f]

\* Mutant: a field with a pending promise is fetched again.
IsNotAlreadyLoadedOrLoadingMut(f) == ~loaded[f]

\* loadCellValuesInFieldIdsAsync, lines 213-219: a field that is neither
\* loaded nor has a pending promise goes into the new batch.
IsNotAlreadyLoadedOrLoading(f) == ~loaded[f] /\ pending[f] = NoBatch

\* Mutant: a field listed twice is retained only once.
RetainedCountsMut(fs) == [f \in Fields |-> retain[f] + IF f \in Range(fs) THEN 1 ELSE 0]

\* loadCellValuesInFieldIdsAsync, lines 206-211: one retain unit per listed
\* occurrence of a field.
RetainedCounts(fs) == [f \in Fields |-> retain[f] + Count(fs, f)]

\* Mutant: Promise.all resolves on its first batch.
CallResolvesWithMut(i, b) == cst[i] = "waiting" /\ b \in cwaits[i]

\* The join of line 243 (Promise.all): call i resolves with batch b when every
\* other batch it awaits has already completed.
CallResolvesWith(i, b) ==
    /\ cst[i] = "waiting"
    /\ b \in cwaits[i]
    /\ \A w \in cwaits[i] \ {b} : bst[w] = "done"

\* loadCellValuesInFieldIdsAsync: retain every listed field, join pending
\* batches, start one fetch for the cold fields, await them all.
LoadCellValuesInFieldIdsAsync(fs) ==
    LET i == nLoads + 1
        cold == SelectSeq(fs, IsNotAlreadyLoadedOrLoading)
        joined == {pending[f] : f \in {g \in Range(fs) : ~loaded[g] /\ pending[g] # NoBatch}}
        waits == joined \cup (IF cold # <<>> THEN {i} ELSE {})
    IN
    /\ nLoads' = i
    /\ retain' = RetainedCounts(fs)
    /\ retainedTotal' = [f \in Fields |-> retainedTotal[f] + Count(fs, f)]
    /\ pending' = [f \in Fields |-> IF f \in Range(cold) THEN i ELSE pending[f]]
    /\ bfields' = [bfields EXCEPT ![i] = cold]
    /\ bst' = [bst EXCEPT ![i] = IF cold # <<>> THEN "inflight" ELSE "none"]
    /\ cfields' = [cfields EXCEPT ![i] = fs]
    /\ cwaits' = [cwaits EXCEPT ![i] = waits]
    /\ cst' = [cst EXCEPT ![i] =
                 IF \E w \in joined : bst[w] = "failed" THEN "rejected"
                 ELSE IF waits = {} THEN "resolved" ELSE "waiting"]
    /\ gapExceeded' = [f \in Fields |->
                         gapExceeded[f] \/
                         (f \in Range(fs) /\ retain[f] = 0
                          /\ now - zeroAt[f] >= UnloadDelay)]
    /\ unsubInPeriod' = [f \in Fields |-> IF f \in Range(fs) THEN 0 ELSE unsubInPeriod[f]]
    /\ UNCHANGED <<loaded, recsDefined, recs, dataLoaded, timers, now, nUnloads,
                   unsubCalls, zeroAt, lastResp, callZeroed,
                   releasedTotal, overReleased, wrappers, broadcast, diffVars, metaVars>>

\* Backend contents: the cell values the backend holds for each record.
ServerCells == [r \in Recs |-> IF r = "r1" THEN [f \in Fields |-> IF f = "f1" THEN "x" ELSE "y"]
                                         ELSE [f \in Fields |-> IF f = "f1" THEN "y" ELSE Undef]]

\* Possible responses of fetchAndSubscribeToCellValuesInFieldsAsync for field
\* list fs: the records existing on the backend (any subset), each with the
\* values of the requested fields only.
Responses(fs) ==
    {[r \in Recs |-> IF r \in live
                     THEN [present |-> TRUE,
                           cells |-> [f \in Fields |-> IF f \in Range(fs) THEN ServerCells[r][f]
                                                                         ELSE Undef]]
                     ELSE AbsentRec] : live \in SUBSET Recs}

\* Mutant: a known record is replaced by the incoming one.
MergeRecordMut(existing, incoming, fs) == IF ~incoming.present THEN existing ELSE incoming

\* _loadCellValuesInFieldIdsAsync, lines 256-286: new records are inserted
\* wholesale; known records get exactly the fetched fields overwritten.
MergeRecord(existing, incoming, fs) ==
    IF ~incoming.present THEN existing
    ELSE IF ~existing.present THEN incoming
    ELSE [existing EXCEPT !.cells =
            [f \in Fields |-> IF f \in Range(fs) THEN incoming.cells[f]
                                                 ELSE existing.cells[f]]]
MergeRecords(existingRecs, resp, fs) ==
    [r \in Recs |-> MergeRecord(existingRecs[r], resp[r], fs)]

\* Mutant: completion re-checks the retain count.
FieldIdsMarkedLoadedMut(b) == {f \in Range(bfields[b]) : retain[f] > 0}

\* Lines 233-236: every field of the batch is marked loaded.
FieldIdsMarkedLoaded(b) == Range(bfields[b])

\* Completion of batch b: the fetch resolves, the merge runs, then the .then
\* handler (lines 232-241) marks the batch's fields loaded and clears their
\* pending promises; callers whose Promise.all is complete resolve.
BatchComplete(b) ==
    /\ bst[b] = "inflight"
    /\ \E resp \in Responses(bfields[b]) :
         /\ recs' = MergeRecords(recs, resp, bfields[b])
         /\ lastResp' = [r \in Recs |-> resp[r].present]
    /\ recsDefined' = TRUE
    /\ loaded' = [f \in Fields |-> IF f \in FieldIdsMarkedLoaded(b) THEN TRUE ELSE loaded[f]]
    /\ pending' = [f \in Fields |-> IF f \in FieldIdsMarkedLoaded(b) THEN NoBatch ELSE pending[f]]
    /\ bst' = [bst EXCEPT ![b] = "done"]
    /\ cst' = [i \in CallIds |->
                 IF CallResolvesWith(i, b) THEN "resolved" ELSE cst[i]]
    /\ broadcast' = ChangedKeys(bfields[b])
    /\ UNCHANGED <<retain, bfields, cfields, cwaits, dataLoaded, timers, now,
                   nLoads, nUnloads, unsubCalls, zeroAt,
                   unsubInPeriod, gapExceeded, callZeroed, retainedTotal, releasedTotal, overReleased,
                   wrappers, watchCount, diffVars, metaVars, dataRetainVars>>

\* Rejection of the fetch of batch b: the .then handler never runs, every
\* Promise.all awaiting b rejects.
BatchFail(b) ==
    /\ bst[b] = "inflight"
    /\ bst' = [bst EXCEPT ![b] = "failed"]
    /\ cst' = [i \in CallIds |->
                 IF cst[i] = "waiting" /\ b \in cwaits[i] THEN "rejected" ELSE cst[i]]
    /\ UNCHANGED <<retain, loaded, pending, bfields, cfields, cwaits, recsDefined,
                   recs, dataLoaded, timers, now, nLoads, nUnloads, unsubCalls, zeroAt, unsubInPeriod, gapExceeded,
                   lastResp, callZeroed, retainedTotal, releasedTotal, overReleased,
                   wrappers, broadcast, watchCount, diffVars, metaVars, dataRetainVars>>

\* unloadCellValuesInFieldIds, lines 296-310: release one unit per listed
\* field, clamping at zero; the fields whose count ends at zero.
ReleasedRetain(fs) == [f \in Fields |-> IF retain[f] - Count(fs, f) < 0 THEN 0
                                        ELSE retain[f] - Count(fs, f)]
FieldIdsWithZeroRetainCount(fs) == {f \in Range(fs) : retain[f] - Count(fs, f) <= 0}

\* unloadCellValuesInFieldIds: release, and schedule the debounced unload.
UnloadCellValuesInFieldIds(fs) ==
    LET zero == FieldIdsWithZeroRetainCount(fs)
        alreadyUnloaded == \A f \in Range(fs) : retain[f] = 0 /\ ~loaded[f]
    IN
    /\ nUnloads' = nUnloads + 1
    /\ retain' = ReleasedRetain(fs)
    /\ releasedTotal' = [f \in Fields |-> releasedTotal[f] + Count(fs, f)]
    \* console.log('Field data over-released')
    /\ overReleased' = [f \in Fields |-> overReleased[f] \/ retain[f] - Count(fs, f) < 0]
    /\ timers' = IF zero # {}
                 THEN Append(timers, [fields |-> zero, due |-> now + UnloadDelay,
                                      noop |-> alreadyUnloaded])
                 ELSE timers
    /\ zeroAt' = [f \in Fields |-> IF f \in zero /\ retain[f] > 0 THEN now ELSE zeroAt[f]]
    /\ callZeroed' = [i \in CallIds |->
                        IF cst[i] = "waiting"
                        THEN callZeroed[i] \cup (zero \cap Range(cfields[i]))
                        ELSE callZeroed[i]]
    /\ UNCHANGED <<loaded, pending, bfields, bst, cfields, cwaits, cst,
                   recsDefined, recs, dataLoaded, now, nLoads, unsubCalls, unsubInPeriod, gapExceeded, lastResp, retainedTotal,
                   wrappers, broadcast, diffVars, metaVars>>

\* _afterUnloadDataOrUnloadCellValuesInFieldIds, lines 355-382, on the
\* record map, given the loaded flags and isDataLoaded after the unload and
\* the fields to clear.
AfterUnloadRecs(loadedNow, dataNow, toClear) ==
    IF ~(dataNow \/ \E f \in Fields : loadedNow[f])
    THEN [r \in Recs |-> AbsentRec]
    ELSE IF ~dataNow
    THEN [r \in Recs |->
            IF recs[r].present
            THEN [recs[r] EXCEPT !.cells =
                    [f \in Fields |-> IF f \in toClear THEN Undef ELSE recs[r].cells[f]]]
            ELSE recs[r]]
    ELSE recs
AfterUnloadDefined(loadedNow, dataNow) ==
    IF ~(dataNow \/ \E f \in Fields : loadedNow[f]) THEN FALSE ELSE recsDefined
\* Mutant: the Record cache survives the drop of the record map.
AfterUnloadWrappersMut(loadedNow, dataNow) == wrappers

\* Lines 383-385: the Record cache is emptied when no field is loaded.
AfterUnloadWrappers(loadedNow, dataNow) ==
    IF ~(dataNow \/ \E f \in Fields : loadedNow[f]) THEN {} ELSE wrappers

\* Mutant: the unload timer does not re-check the retain count.
FieldIdsToUnloadMut(t) == t.fields

\* The setTimeout callback of unloadCellValuesInFieldIds, lines 312-322, with
\* _unloadCellValuesInFieldIds (lines 326-329).
FieldIdsToUnload(t) == {f \in t.fields : retain[f] = 0}
FireUnloadTimer ==
    /\ timers # <<>>
    /\ LET t == Head(timers)
           u == FieldIdsToUnload(t)
           loadedNow == [f \in Fields |-> IF f \in u THEN FALSE ELSE loaded[f]]
       IN
       /\ timers' = Tail(timers)
       /\ IF u # {}
          THEN /\ loaded' = loadedNow
               /\ unsubCalls' = [f \in Fields |-> IF f \in u THEN unsubCalls[f] + 1
                                                           ELSE unsubCalls[f]]
               /\ unsubInPeriod' = [f \in Fields |-> IF f \in u THEN unsubInPeriod[f] + 1
                                                               ELSE unsubInPeriod[f]]
               /\ recs' = AfterUnloadRecs(loadedNow, dataLoaded, u)
               /\ recsDefined' = AfterUnloadDefined(loadedNow, dataLoaded)
               /\ wrappers' = AfterUnloadWrappers(loadedNow, dataLoaded)
          ELSE UNCHANGED <<loaded, unsubCalls, unsubInPeriod, recs, recsDefined, wrappers>>
    /\ UNCHANGED <<retain, pending, bfields, bst, cfields, cwaits, cst, dataLoaded,
                   now, nLoads, nUnloads, zeroAt,
                   gapExceeded, lastResp, callZeroed, retainedTotal, releasedTotal, overReleased,
                   broadcast, watchCount, diffVars, metaVars, dataRetainVars>>

\* Timers fire in scheduling order. Without a clock any such order is
\* possible; with the clock a timer fires once its delay has elapsed.
UnloadTimerFires == FireUnloadTimer
UnloadTimerFiresTimed == timers # <<>> /\ now >= Head(timers).due /\ FireUnloadTimer

\* Whole-table load: _loadDataAsync (lines 331-348) replaces the record map
\* with the full snapshot; the base class then sets isDataLoaded.
FullSnapshots == {[r \in Recs |-> IF r \in live THEN [present |-> TRUE, cells |-> ServerCells[r]]
                                   ELSE AbsentRec] : live \in SUBSET Recs}
LoadDataAsync ==
    /\ ~dataLoaded
    /\ dataLoaded' = TRUE
    /\ \E snap \in FullSnapshots : recs' = snap
    /\ recsDefined' = TRUE
    /\ UNCHANGED <<retain, loaded, pending, bfields, bst, cfields, cwaits, cst,
                   timers, now, nLoads, nUnloads, unsubCalls, zeroAt,
                   unsubInPeriod, gapExceeded, lastResp, callZeroed, retainedTotal, releasedTotal, overReleased,
                   wrappers, broadcast, watchCount, diffVars, metaVars>>

\* Whole-table unload: _unloadData (lines 350-353) after the base class
\* clears isDataLoaded; every field not loaded is cleared.
UnloadData ==
    /\ dataLoaded
    /\ dataLoaded' = FALSE
    /\ recs' = AfterUnloadRecs(loaded, FALSE, {f \in Fields : ~loaded[f]})
    /\ recsDefined' = AfterUnloadDefined(loaded, FALSE)
    /\ wrappers' = AfterUnloadWrappers(loaded, FALSE)
    /\ UNCHANGED <<retain, loaded, pending, bfields, bst, cfields, cwaits, cst,
                   timers, now, nLoads, nUnloads, unsubCalls, zeroAt, unsubInPeriod, gapExceeded, lastResp,
                   callZeroed, retainedTotal, releasedTotal, overReleased, broadcast, watchCount,
                   diffVars, metaVars>>

\* getRecordByIdIfExists (lines 155-175) on a known record: the Record is
\* created and cached on first access. (An unknown id returns null and a
\* missing record map fails the assertion; neither changes the state.)
GetRecordByIdIfExists(r) ==
    /\ recsDefined
    /\ recs[r].present
    /\ r \notin wrappers
    /\ wrappers' = wrappers \cup {r}
    /\ UNCHANGED <<retain, loaded, pending, bfields, bst, cfields, cwaits, cst,
                   recsDefined, recs, dataLoaded, timers, now, nLoads, nUnloads,
                   unsubCalls, zeroAt, unsubInPeriod, gapExceeded, lastResp,
                   callZeroed, retainedTotal, releasedTotal, overReleased,
                   broadcast, watchCount, diffVars, metaVars, dataRetainVars>>

Tick ==
    /\ now < MaxTime
    /\ now' = now + 1
    /\ UNCHANGED <<retain, loaded, pending, bfields, bst, cfields, cwaits, cst,
                   recsDefined, recs, dataLoaded, timers, nLoads, nUnloads,
                   unsubCalls, zeroAt, unsubInPeriod,
                   gapExceeded, lastResp, callZeroed, retainedTotal, releasedTotal, overReleased,
                   wrappers, broadcast, watchCount, diffVars, metaVars, dataRetainVars>>

Next ==
    \/ \E fs \in FieldLists : nLoads < MaxLoads /\ LoadCellValuesInFieldIdsAsync(fs)
                                /\ UNCHANGED <<watchCount, dataRetainVars>>
    \/ \E fs \in FieldLists : nUnloads < MaxUnloads /\ UnloadCellValuesInFieldIds(fs)
                                /\ UNCHANGED <<watchCount, dataRetainVars>>
    \/ \E b \in CallIds : BatchComplete(b)
    \/ \E b \in CallIds : BatchFail(b)
    \/ UnloadTimerFires

Spec == Init /\ [][Next]_vars

\* Timers fire and fetches complete (weak fairness), as the event loop runs
\* each due setTimeout callback and each resolved promise's handlers.
SpecFair ==
    /\ Spec
    /\ WF_vars(UnloadTimerFires)
    /\ \A b \in CallIds : WF_vars(BatchComplete(b))

NextTimed ==
    \/ \E fs \in FieldLists : nLoads < MaxLoads /\ LoadCellValuesInFieldIdsAsync(fs)
                                /\ UNCHANGED <<watchCount, dataRetainVars>>
    \/ \E fs \in FieldLists : nUnloads < MaxUnloadsTimed /\ UnloadCellValuesInFieldIds(fs)
                                /\ UNCHANGED <<watchCount, dataRetainVars>>
    \/ \E b \in CallIds : BatchComplete(b)
    \/ \E b \in CallIds : BatchFail(b)
    \/ UnloadTimerFiresTimed
    \/ Tick

SpecTimed == Init /\ [][NextTimed]_vars

\* The store together with whole-table loads and unloads.
NextWithData ==
    \/ \E fs \in FieldLists : nLoads < MaxLoadsWithData /\ LoadCellValuesInFieldIdsAsync(fs)
                                /\ UNCHANGED <<watchCount, dataRetainVars>>
    \/ \E fs \in FieldLists : nUnloads < MaxUnloads /\ UnloadCellValuesInFieldIds(fs)
                                /\ UNCHANGED <<watchCount, dataRetainVars>>
    \/ \E b \in CallIds : BatchComplete(b)
    \/ \E b \in CallIds : BatchFail(b)
    \/ UnloadTimerFires
    \/ LoadDataAsync /\ UNCHANGED dataRetainVars
    \/ UnloadData /\ UNCHANGED dataRetainVars
    \/ \E r \in Recs : GetRecordByIdIfExists(r)

SpecWithData == Init /\ [][NextWithData]_vars


\* ====================== createdTime / commentCount checks of the merge loop
\* Bounds of the metadata specification.
MaxMetaLoads == 2
MaxMetaPushes == 1

\* Possible fetch responses: each record absent or present with any metadata.
MetaResponses ==
    [MetaRecs -> {MetaAbsent} \cup
                 [present : {TRUE}, commentCount : CommentCounts, createdTime : CreatedTimes]]
\* entries(newRecordsById): the response's records in some key order.
EntryOrders(resp) ==
    LET ids == {r \in MetaRecs : resp[r].present}
    IN {o \in [1..Cardinality(ids) -> ids] : Range(o) = ids}

\* Mutant: the merge does not compare the cached metadata.
MetaInSyncMut(existing, incoming) == TRUE

\* Lines 267-274: commentCount, then createdTime, must equal the cached ones.
MetaInSync(existing, incoming) ==
    /\ existing.commentCount = incoming.commentCount
    /\ existing.createdTime = incoming.createdTime

\* The loop of lines 260-286 over the response entries in order o: a new
\* record is inserted, a known one is checked; a failed invariant throws
\* out of the loop, leaving the records merged so far.
RECURSIVE MetaMergeLoop(_, _, _, _)
MetaMergeLoop(st, resp, o, i) ==
    IF i > Len(o) THEN st
    ELSE LET r == o[i] IN
         IF ~st.recs[r].present
         THEN MetaMergeLoop([st EXCEPT !.recs[r] = resp[r], !.seen[r] = {MetaOf(resp[r])}],
                            resp, o, i + 1)
         ELSE IF ~MetaInSync(st.recs[r], resp[r])
         THEN [st EXCEPT !.failed = TRUE]
         ELSE MetaMergeLoop([st EXCEPT !.seen[r] = @ \cup {MetaOf(resp[r])}], resp, o, i + 1)

\* Completion of a batch fetch: the merge of _loadCellValuesInFieldIdsAsync
\* on the records' metadata. A thrown invariant rejects the batch.
MetaBatchComplete ==
    /\ mLoads < MaxMetaLoads
    /\ \E resp \in MetaResponses : \E o \in EntryOrders(resp) :
         LET res == MetaMergeLoop([recs |-> mRecs, seen |-> mSeen, failed |-> FALSE], resp, o, 1)
         IN /\ mRecs' = res.recs
            /\ mSeen' = res.seen
            /\ mFailed' = IF res.failed THEN mFailed + 1 ELSE mFailed
            /\ mLastResp' = resp
    /\ mLoads' = mLoads + 1
    /\ UNCHANGED <<mPushes, mainVars, diffVars>>

\* A backend update of a record's commentCount, applied to the record map by
\* the base data layer.
CommentCountPush ==
    /\ mPushes < MaxMetaPushes
    /\ \E r \in MetaRecs : \E c \in CommentCounts :
         /\ mRecs[r].present
         /\ c # mRecs[r].commentCount
         /\ mRecs' = [mRecs EXCEPT ![r].commentCount = c]
    /\ mPushes' = mPushes + 1
    /\ UNCHANGED <<mSeen, mFailed, mLastResp, mLoads, mainVars, diffVars>>

\* The record map is dropped when no field stays loaded (line 362).
MetaDropRecordMap ==
    /\ \E r \in MetaRecs : mRecs[r].present
    /\ mRecs' = [r \in MetaRecs |-> MetaAbsent]
    /\ mSeen' = [r \in MetaRecs |-> {}]
    /\ UNCHANGED <<mFailed, mLastResp, mLoads, mPushes, mainVars, diffVars>>

NextMeta ==
    \/ MetaBatchComplete
    \/ CommentCountPush
    \/ MetaDropRecordMap

SpecMeta == Init /\ [][NextMeta]_vars


\* ========= triggerOnChangeForDirtyPaths and getRecordByIdIfExists, two records
\* Bounds of the dirty-path specification.
MaxDiffs == 2
MaxGets == 2

\* Entry of dirtyPaths.recordsById: the record id, its _isDirty flag and the
\* keys of its cellValuesByFieldId (in order).
DirtyEntry(id, isDirty, fids) == [id |-> id, isDirty |-> isDirty, cellFieldIds |-> fids]
CellFieldLists == {<<"F1">>, <<"F2">>, <<"F1", "F2">>}
\* All orders of a set of record ids.
IdOrders(ids) == {o \in [1..Cardinality(ids) -> ids] : Range(o) = ids}

\* Object.keys of an object filled in the order of the sequence: first
\* occurrences kept.
RECURSIVE KeysInInsertionOrder(_, _)
KeysInInsertionOrder(seq, acc) ==
    IF seq = <<>> THEN acc
    ELSE KeysInInsertionOrder(Tail(seq),
                              IF Head(seq) \in Range(acc) THEN acc ELSE Append(acc, Head(seq)))
RECURSIVE ConcatCellFieldIds(_)
ConcatCellFieldIds(dp) ==
    IF dp = <<>> THEN <<>> ELSE Head(dp).cellFieldIds \o ConcatCellFieldIds(Tail(dp))

\* Mutant: the structural notifications fire even when nothing was added or
\* removed.
StructuralNotificationsMut(added, removed) ==
    <<Notif("records", added, removed, <<>>, <<>>), Notif("recordIds", added, removed, <<>>, <<>>)>>

\* Lines 414-424: 'records' then 'recordIds' when something was added or removed.
StructuralNotifications(added, removed) ==
    IF added # <<>> \/ removed # <<>>
    THEN <<Notif("records", added, removed, <<>>, <<>>),
           Notif("recordIds", added, removed, <<>>, <<>>)>>
    ELSE <<>>

\* Mutant: a removed record keeps its Record.
EvictedWrappersMut(wr, removed) == wr

\* Lines 399-404: the Records of removed ids are deleted from the cache.
EvictedWrappers(wr, removed) ==
    [r \in DRecs |-> IF r \in Range(removed) THEN NoWrapper ELSE wr[r]]

\* triggerOnChangeForDirtyPaths (lines 388-446) for the record map post (the
\* ids after the diff), the Record cache wr and the entries dp: the
\* notifications in order, the cache after, and the Records the per-record
\* diffs are forwarded to.
TriggerOnChangeForDirtyPaths(meta, post, wr, dp) ==
    IF ~meta \/ dp = <<>>
    THEN [notifs |-> <<>>, wrappers |-> wr, forwarded |-> {}]
    ELSE
    LET dirty == SelectSeq(dp, LAMBDA e : e.isDirty)
        added == [i \in 1..Len(SelectSeq(dirty, LAMBDA e : e.id \in post)) |->
                    SelectSeq(dirty, LAMBDA e : e.id \in post)[i].id]
        removed == [i \in 1..Len(SelectSeq(dirty, LAMBDA e : e.id \notin post)) |->
                      SelectSeq(dirty, LAMBDA e : e.id \notin post)[i].id]
        forwarded == {<<e.id, wr[e.id]>> : e \in {x \in Range(dp) : ~x.isDirty /\ wr[x.id] # NoWrapper}}
        fieldIds == KeysInInsertionOrder(ConcatCellFieldIds(dp), <<>>)
        recordIds == [i \in 1..Len(dp) |-> dp[i].id]
        cellNotifs ==
            (IF fieldIds # <<>> /\ recordIds # <<>>
             THEN <<Notif("cellValues", <<>>, <<>>, recordIds, fieldIds)>>
             ELSE <<>>)
            \o [i \in 1..Len(fieldIds) |->
                  Notif(WatchableCellValuesInFieldKeyPrefix \o fieldIds[i], <<>>, <<>>,
                        recordIds, <<fieldIds[i]>>)]
    IN [notifs |-> StructuralNotifications(added, removed) \o cellNotifs,
        wrappers |-> EvictedWrappers(wr, removed),
        forwarded |-> forwarded]

\* Dirty paths of a backend diff that changes the record ids from dRecs to
\* post and the cells of the records in cellRecs (fields given by fl), with
\* its entries in the order o.
DirtyPathsOf(post, cellRecs, fl, o) ==
    [i \in 1..Len(o) |->
        IF o[i] \in cellRecs THEN DirtyEntry(o[i], FALSE, fl[o[i]])
        ELSE DirtyEntry(o[i], TRUE, <<>>)]

\* A backend diff: the base data layer applies it to the record map, then
\* calls triggerOnChangeForDirtyPaths with its dirty paths.
ApplyDirtyPaths ==
    /\ dDiffs < MaxDiffs
    /\ \E post \in (IF dMeta THEN SUBSET DRecs ELSE {dRecs}) :
       \E cellRecs \in (IF dMeta THEN SUBSET (dRecs \cap post) ELSE {{r} : r \in DRecs}) :
       \E fl \in [cellRecs -> CellFieldLists] :
       LET structural == IF dMeta THEN (dRecs \ post) \cup (post \ dRecs) ELSE {}
       IN \E o \in IdOrders(structural \cup cellRecs) :
          LET dp == DirtyPathsOf(post, cellRecs, fl, o)
              res == TriggerOnChangeForDirtyPaths(dMeta, post, dWrappers, dp)
          IN /\ dRecs' = post
             /\ dLastDiff' = dp
             /\ dNotifs' = res.notifs
             /\ dWrappers' = res.wrappers
             /\ dForwarded' = res.forwarded
    /\ dDiffs' = dDiffs + 1
    /\ UNCHANGED <<dMeta, dEver, dNextWrapper, dGets, dLastGet, mainVars, metaVars>>

\* Mutant: the cache is never consulted.
IsRecordModelCachedMut(r) == FALSE

\* Line 163: a Record exists in _recordModelsById.
IsRecordModelCached(r) == dWrappers[r] # NoWrapper

\* getRecordByIdIfExists(r) (lines 155-175) on this store; its result is
\* recorded in dLastGet.
DiffStoreGetRecordByIdIfExists(r) ==
    /\ dGets < MaxGets
    /\ dGets' = dGets + 1
    /\ IF ~dMeta
       THEN /\ dLastGet' = [id |-> r, kind |-> "assert", wrapper |-> NoWrapper, cached |-> FALSE]
            /\ UNCHANGED <<dWrappers, dEver, dNextWrapper>>
       ELSE IF r \notin dRecs
       THEN /\ dLastGet' = [id |-> r, kind |-> "null", wrapper |-> NoWrapper, cached |-> FALSE]
            /\ UNCHANGED <<dWrappers, dEver, dNextWrapper>>
       ELSE IF IsRecordModelCached(r)
       THEN /\ dLastGet' = [id |-> r, kind |-> "record", wrapper |-> dWrappers[r], cached |-> TRUE]
            /\ UNCHANGED <<dWrappers, dEver, dNextWrapper>>
       ELSE LET w == dNextWrapper + 1 IN
            /\ dNextWrapper' = w
            /\ dWrappers' = [dWrappers EXCEPT ![r] = w]
            /\ dEver' = [dEver EXCEPT ![r] = @ \cup {w}]
            /\ dLastGet' = [id |-> r, kind |-> "record", wrapper |-> w, cached |-> FALSE]
    /\ dNotifs' = <<>>
    /\ dForwarded' = {}
    /\ UNCHANGED <<dRecs, dMeta, dLastDiff, dDiffs, mainVars, metaVars>>

\* A field load completes: its merge (lines 256-264) creates the record map
\* if it is undefined and inserts every record of the response it lacks;
\* triggerOnChangeForDirtyPaths is not involved.
DiffLoadRecordMetadata ==
    /\ dMeta' = TRUE
    /\ \E ids \in SUBSET DRecs : dRecs' = dRecs \cup ids
    /\ dNotifs' = <<>>
    /\ dForwarded' = {}
    /\ UNCHANGED <<dWrappers, dEver, dNextWrapper, dLastDiff,
                   dDiffs, dGets, dLastGet, mainVars, metaVars>>

\* The last loaded field is unloaded: the record map is dropped and the
\* Record cache emptied (lines 360-362, 383-385).
DiffUnloadRecordMetadata ==
    /\ dMeta
    /\ dMeta' = FALSE
    /\ dRecs' = {}
    /\ dWrappers' = [r \in DRecs |-> NoWrapper]
    /\ dNotifs' = <<>>
    /\ dForwarded' = {}
    /\ UNCHANGED <<dEver, dNextWrapper, dLastDiff,
                   dDiffs, dGets, dLastGet, mainVars, metaVars>>

NextDiff ==
    \/ ApplyDirtyPaths
    \/ \E r \in DRecs : DiffStoreGetRecordByIdIfExists(r)
    \/ DiffLoadRecordMetadata
    \/ DiffUnloadRecordMetadata

SpecDiff == Init /\ [][NextDiff]_vars


\* ================================================== watch / unwatch (81-121)
\* Bound of the watch specification.
MaxWatchUnloads == 2

\* RecordStore._isWatchableKey (lines 34-41).
IsWatchableKey(k) ==
    \/ k \in WatchableRecordStoreKeys
    \/ StartsWith(k, WatchableCellValuesInFieldKeyPrefix)
    \/ StartsWith(k, WatchableRecordIdsInViewKeyPrefix)
    \/ StartsWith(k, WatchableRecordColorsInViewKeyPrefix)

\* The keys the base class's watch / unwatch accept and return.
ValidKeys(keys) == SelectSeq(keys, IsWatchableKey)

\* _getFieldIdsToLoadFromWatchableKeys (lines 107-121).
RECURSIVE GetFieldIdsToLoadFromWatchableKeys(_)
GetFieldIdsToLoadFromWatchableKeys(keys) ==
    IF keys = <<>> THEN <<>>
    ELSE LET k == Head(keys)
             here == IF StartsWith(k, WatchableCellValuesInFieldKeyPrefix)
                     THEN <<KeySuffix(k, WatchableCellValuesInFieldKeyPrefix)>>
                     ELSE IF k = "records" \/ k = "recordIds" THEN <<PrimaryFieldId>>
                     ELSE <<>>
         IN here \o GetFieldIdsToLoadFromWatchableKeys(Tail(keys))

\* RecordStore._shouldLoadDataForKey (lines 42-44).
ShouldLoadDataForKey(k) == k = "cellValues"
WantsData(keys) == \E i \in 1..Len(keys) : ShouldLoadDataForKey(keys[i])

\* The base class's watch: when an accepted key needs the whole table, it
\* retains the table data and starts its load (loadDataAsync) unless the
\* table is loaded or loading.
RetainData(keys) ==
    /\ dataRetain' = IF WantsData(keys) THEN dataRetain + 1 ELSE dataRetain
    /\ dataLoadPending' = IF WantsData(keys) /\ ~dataLoaded /\ ~dataLoadPending
                          THEN TRUE ELSE dataLoadPending
    /\ UNCHANGED dataUnloadTimers

\* The base class's unwatch: when an accepted key needs the whole table, it
\* releases the table data (clamping at zero) and, at zero, schedules the
\* debounced whole-table unload.
ReleaseData(keys) ==
    LET n == IF dataRetain > 0 THEN dataRetain - 1 ELSE 0 IN
    /\ dataRetain' = IF WantsData(keys) THEN n ELSE dataRetain
    /\ dataUnloadTimers' = IF WantsData(keys) /\ n = 0 THEN dataUnloadTimers + 1
                           ELSE dataUnloadTimers
    /\ UNCHANGED dataLoadPending

\* watch (lines 81-92): the base class registers the keys (and retains the
\* table data for 'cellValues'); the fields of the accepted keys are loaded
\* (fire-and-forget).
Watch(kl) ==
    LET fs == GetFieldIdsToLoadFromWatchableKeys(ValidKeys(kl)) IN
    /\ watchCount' = [watchCount EXCEPT ![kl] = @ + 1]
    /\ RetainData(ValidKeys(kl))
    /\ IF fs # <<>> THEN LoadCellValuesInFieldIdsAsync(fs)
       ELSE UNCHANGED <<storeVars, diffVars, metaVars>>

\* Mutant: unwatch releases each field once.
UnwatchMut(kl) ==
    LET fs == KeysInInsertionOrder(GetFieldIdsToLoadFromWatchableKeys(ValidKeys(kl)), <<>>) IN
    /\ watchCount[kl] > 0
    /\ watchCount' = [watchCount EXCEPT ![kl] = @ - 1]
    /\ ReleaseData(ValidKeys(kl))
    /\ IF fs # <<>> THEN UnloadCellValuesInFieldIds(fs)
       ELSE UNCHANGED <<storeVars, diffVars, metaVars>>

\* unwatch (lines 94-105) of keys an earlier watch call passed: the base
\* class deregisters them (and releases the table data for 'cellValues'); the
\* fields of the accepted keys are released.
Unwatch(kl) ==
    LET fs == GetFieldIdsToLoadFromWatchableKeys(ValidKeys(kl)) IN
    /\ watchCount[kl] > 0
    /\ watchCount' = [watchCount EXCEPT ![kl] = @ - 1]
    /\ ReleaseData(ValidKeys(kl))
    /\ IF fs # <<>> THEN UnloadCellValuesInFieldIds(fs)
       ELSE UNCHANGED <<storeVars, diffVars, metaVars>>

\* The whole-table fetch started by a watch completes (_loadDataAsync, lines
\* 331-348); the base class sets isDataLoaded.
WatchedDataLoadCompletes ==
    /\ dataLoadPending
    /\ dataLoadPending' = FALSE
    /\ LoadDataAsync
    /\ UNCHANGED <<dataRetain, dataUnloadTimers>>

\* A debounced whole-table unload timer fires: if the table data is still
\* unretained and loaded, the base class clears isDataLoaded and calls
\* _unloadData (lines 350-353).
WatchedDataUnloadTimerFires ==
    /\ dataUnloadTimers > 0
    /\ dataUnloadTimers' = dataUnloadTimers - 1
    /\ IF dataRetain = 0 /\ dataLoaded THEN UnloadData
       ELSE UNCHANGED <<storeVars, watchCount, diffVars, metaVars>>
    /\ UNCHANGED <<dataRetain, dataLoadPending>>

NextWatch ==
    \/ \E kl \in KeyLists : nLoads < MaxLoads /\ Watch(kl)
    \/ \E kl \in KeyLists : nUnloads < MaxWatchUnloads /\ Unwatch(kl)
    \/ \E b \in CallIds : BatchComplete(b)
    \/ \E b \in CallIds : BatchFail(b)
    \/ UnloadTimerFires
    \/ WatchedDataLoadCompletes
    \/ WatchedDataUnloadTimerFires

SpecWatch == Init /\ [][NextWatch]_vars

\* ================================================================ properties

\* C1: at no point are two backend fetches outstanding that both include the
\* same field id; later requesters join the pending batch instead.
NoTwoInFlightFetchesShareAField ==
    \A b1, b2 \in CallIds :
        (b1 # b2 /\ bst[b1] = "inflight" /\ bst[b2] = "inflight")
            => Range(bfields[b1]) \cap Range(bfields[b2]) = {}

\* A call joined a batch that is still being fetched.
WitnessC1 ==
    \E i \in CallIds : \E w \in cwaits[i] : w # i /\ bst[w] = "inflight"

\* C2: when a batch fetch rejects, the pending marker of every field of the
\* batch is cleared and none of them is loaded by it, so a later load can retry.
FailedBatchClearsPendingMarkers ==
    \A b \in CallIds :
        bst[b] = "failed" => \A f \in Range(bfields[b]) : pending[f] # b

\* C6: retain counts never go negative; each retain adds one per listed field
\* and each release subtracts one, clamping an over-release at zero (and
\* logging it); without over-release the count is retains minus releases.
RetainCountsBalanced ==
    \A f \in Fields :
        /\ retain[f] >= 0
        /\ ~overReleased[f] => retain[f] = retainedTotal[f] - releasedTotal[f]
        /\ overReleased[f] => retain[f] >= retainedTotal[f] - releasedTotal[f]

\* A field retained twice by one call and released twice.
WitnessC6 ==
    \E f \in Fields : retainedTotal[f] = 2 /\ releasedTotal[f] = 2 /\ retain[f] = 0
                      /\ ~overReleased[f]

\* C8: a field with a positive retain count is loaded or has a load in
\* flight (its pending promise belongs to a fetch that has not settled).
RetainedFieldLoadedOrLoading ==
    \A f \in Fields :
        retain[f] > 0 => loaded[f] \/ (pending[f] # NoBatch /\ bst[pending[f]] = "inflight")

\* Value of field f in record r of the record map (undefined when absent).
CellOf(rs, r, f) == IF rs[r].present THEN rs[r].cells[f] ELSE Undef

\* A step in which the oldest unload timer fires.
TimerFiresStep == timers # <<>> /\ Len(timers') < Len(timers)

\* C5: a firing unload timer acts only on its fields whose retain count is
\* still zero: it unsubscribes them, clears their loaded flags and, unless
\* the whole table is loaded, clears their values in every resident record;
\* every other field keeps its flag, its subscription and its values.
UnloadTimerActsOnZeroRetainFieldsOnly ==
    [][TimerFiresStep =>
        LET u == {f \in Head(timers).fields : retain[f] = 0} IN
        /\ \A f \in u :
             /\ ~loaded'[f]
             /\ unsubCalls'[f] = unsubCalls[f] + 1
             /\ ~dataLoaded => \A r \in Recs : CellOf(recs', r, f) = Undef
        /\ \A f \in Fields \ u :
             /\ loaded'[f] = loaded[f]
             /\ unsubCalls'[f] = unsubCalls[f]
             /\ \A r \in Recs : CellOf(recs', r, f) = CellOf(recs, r, f)
        /\ dataLoaded => recs' = recs]_vars

\* An unload timer cleared f2's values while f1 stays loaded in the record.
WitnessC5 ==
    /\ unsubCalls["f2"] > 0 /\ loaded["f1"] /\ ~loaded["f2"]
    /\ recs["r1"].present /\ recs["r1"].cells["f1"] = "x"
    /\ recs["r1"].cells["f2"] = Undef

\* C7: unloadCellValuesInFieldIds on fields that are already unloaded
\* (retain count zero, loaded flag false) is a no-op apart from logging: its
\* timer issues no unsubscribe and changes no flag or cached value.
UnloadOfUnloadedFieldsIsNoOp ==
    [][(TimerFiresStep /\ Head(timers).noop) =>
        /\ unsubCalls' = unsubCalls
        /\ loaded' = loaded
        /\ recs' = recs
        /\ recsDefined' = recsDefined]_vars

\* A step in which call i's promise resolves.
CallResolvesStep(i) == cst[i] # "resolved" /\ cst'[i] = "resolved"

\* C9 (as stated): when the promise of a load call resolves, every field it
\* requested is loaded.
LoadPromiseResolvesWhenFieldsLoaded ==
    [][\A i \in CallIds :
         CallResolvesStep(i) =>
            \A f \in Range(cfields'[i]) : dataLoaded' \/ loaded'[f]]_vars

\* C9 (amended): the promise of a load call resolves only after every batch it
\* started or joined has completed, and then every requested field whose
\* retain count did not drop to zero during the call is loaded.
LoadPromiseResolvesWhenRetainedFieldsLoaded ==
    [][\A i \in CallIds :
         CallResolvesStep(i) =>
            /\ \A w \in cwaits'[i] : bst'[w] = "done"
            /\ \A f \in Range(cfields'[i]) \ callZeroed'[i] :
                 dataLoaded' \/ loaded'[f]]_vars

\* A call resolved after joining a batch started by another call.
WitnessC9 ==
    \E i \in CallIds : cst[i] = "resolved" /\ \E w \in cwaits[i] : w # i

FetchCalls(f) == Cardinality({b \in CallIds : bst[b] # "none" /\ f \in Range(bfields[b])})

\* C3: if no watch of a field comes a full debounce delay or more after its
\* retain count last reached zero, the backend fetch for that field is
\* issued at most once.
ChurnWithinDebounceFetchesOnce ==
    \A f \in Fields : ~gapExceeded[f] => FetchCalls(f) <= 1

\* C4: a backend unsubscribe for a field is issued only once the debounce
\* delay has elapsed since the release that last brought its retain count to
\* zero, and at most once per period in which the count stays zero.
UnsubscribeOncePerSettledZeroPeriod ==
    [][\A f \in Fields :
         unsubCalls'[f] > unsubCalls[f] =>
            /\ now - zeroAt[f] >= UnloadDelay
            /\ unsubInPeriod[f] = 0]_vars

\* C11 (as stated): a merge finding a known record whose createdTime or
\* commentCount differs fails an invariant instead of overwriting; hence in
\* every state reached without such a failure, each record's createdTime and
\* commentCount equal the values of every partial load that touched it.
MetadataEqualsEveryLoad ==
    mFailed = 0 =>
        \A r \in MetaRecs : mRecs[r].present => \A v \in mSeen[r] : v = MetaOf(mRecs[r])

\* C11 (amended): a merge never rewrites the createdTime or commentCount of a
\* record already in the map, and a merge whose response holds a known record
\* with different createdTime or commentCount fails its invariant (the batch
\* rejects).
MergeNeverRewritesMetadata ==
    [][mLoads' = mLoads + 1 =>
         /\ \A r \in MetaRecs : mRecs[r].present => MetaOf(mRecs'[r]) = MetaOf(mRecs[r])
         /\ (\E r \in MetaRecs : mRecs[r].present /\ mLastResp'[r].present
                                 /\ MetaOf(mLastResp'[r]) # MetaOf(mRecs[r]))
              => mFailed' = mFailed + 1]_vars

\* A merge failed on a known record whose metadata was out of sync.
WitnessC11 ==
    /\ mFailed = 1
    /\ \E r \in MetaRecs : mRecs[r].present /\ mLastResp[r].present
                           /\ MetaOf(mLastResp[r]) # MetaOf(mRecs[r])

\* A step that runs _afterUnloadDataOrUnloadCellValuesInFieldIds: an unload
\* timer that unloads fields, or a whole-table unload.
UnloadStep ==
    \/ \E f \in Fields : unsubCalls'[f] > unsubCalls[f]
    \/ dataLoaded /\ ~dataLoaded'
\* The fields that step unloads.
UnloadedInStep ==
    IF dataLoaded /\ ~dataLoaded' THEN {f \in Fields : ~loaded[f]}
    ELSE {f \in Fields : unsubCalls'[f] > unsubCalls[f]}

\* C12: after an unload that leaves no field loaded and the table not fully
\* loaded, the record map is dropped and the Record cache emptied; if some
\* field is still loaded (table not fully loaded), exactly the unloaded
\* fields' values are cleared and the map and the Record cache are kept; with
\* the table fully loaded nothing is cleared.
UnloadDropsOrClearsRecordMap ==
    [][UnloadStep =>
         IF ~dataLoaded' /\ ~\E f \in Fields : loaded'[f]
         THEN ~recsDefined' /\ wrappers' = {}
         ELSE /\ recsDefined' = recsDefined
              /\ wrappers' = wrappers
              /\ \A r \in Recs : recs'[r].present = recs[r].present
              /\ \A r \in Recs : \A f \in Fields :
                   CellOf(recs', r, f) =
                     IF ~dataLoaded' /\ f \in UnloadedInStep /\ recs[r].present
                     THEN Undef ELSE CellOf(recs, r, f)]_vars

\* A field was unloaded while another stayed loaded: the Record created
\* before is kept and the unloaded field's value is cleared.
WitnessC12 ==
    \E r \in wrappers : \E f, g \in Fields :
        /\ unsubCalls[f] > 0 /\ ~loaded[f] /\ CellOf(recs, r, f) = Undef
        /\ loaded[g] /\ CellOf(recs, r, g) # Undef

\* A diff step of the dirty-path specification.
DiffStep == dDiffs' = dDiffs + 1
\* The scenario: R1 and R2 known, the diff removes R2 and changes F1 on R1.
RemoveR2ChangeF1OnR1 ==
    /\ DiffStep
    /\ dMeta /\ dRecs = {"R1", "R2"} /\ dRecs' = {"R1"}
    /\ Range(dLastDiff') = {DirtyEntry("R1", FALSE, <<"F1">>), DirtyEntry("R2", TRUE, <<>>)}

\* C13: with R1 and R2 known, a diff that removes R2 and changes F1 on R1
\* notifies, in order, 'records' and 'recordIds' (removed [R2]), 'cellValues'
\* (records [R1], fields [F1]) and 'cellValuesInField:F1' (records [R1]).
RemoveAndChangeNotifications ==
    [][RemoveR2ChangeF1OnR1 =>
         dNotifs' = <<Notif("records", <<>>, <<"R2">>, <<>>, <<>>),
                      Notif("recordIds", <<>>, <<"R2">>, <<>>, <<>>),
                      Notif("cellValues", <<>>, <<>>, <<"R1">>, <<"F1">>),
                      Notif("cellValuesInField:F1", <<>>, <<>>, <<"R1">>, <<"F1">>)>>]_vars

\* Keys of the structural notifications.
StructuralKeys == {"records", "recordIds"}

\* C14: triggerOnChangeForDirtyPaths fires nothing when record metadata is not
\* loaded; otherwise 'records' and 'recordIds' fire exactly once each iff some
\* id is marked dirty, with the marked ids present after the diff as added and
\* the others as removed, and they come before every cell-value notification.
StructuralNotificationsFirstAndOnce ==
    [][DiffStep =>
         IF ~dMeta THEN dNotifs' = <<>>
         ELSE LET marked == {e.id : e \in {x \in Range(dLastDiff') : x.isDirty}}
              IN /\ \A k \in StructuralKeys :
                      Cardinality({i \in DOMAIN dNotifs' : dNotifs'[i].key = k})
                        = IF marked # {} THEN 1 ELSE 0
                 /\ \A i \in DOMAIN dNotifs' :
                      dNotifs'[i].key \in StructuralKeys =>
                        /\ Range(dNotifs'[i].addedRecordIds) = marked \cap dRecs'
                        /\ Range(dNotifs'[i].removedRecordIds) = marked \ dRecs'
                 /\ \A i, j \in DOMAIN dNotifs' :
                      (i < j /\ dNotifs'[j].key \in StructuralKeys)
                        => dNotifs'[i].key \in StructuralKeys]_vars

\* A diff that both added a record and changed cells notified structurally
\* and then per field.
WitnessC14 ==
    /\ dMeta
    /\ \E i, j \in DOMAIN dNotifs :
         /\ dNotifs[i].key = "records" /\ dNotifs[i].addedRecordIds # <<>>
         /\ dNotifs[j].key = "cellValues"

\* Record ids marked _isDirty by the diff of the step.
MarkedInStep == {e.id : e \in {x \in Range(dLastDiff') : x.isDirty}}
\* Record ids with an in-place diff in the step.
ChangedInPlaceInStep == {e.id : e \in {x \in Range(dLastDiff') : ~x.isDirty}}

\* C15: a diff keeps the Record of a record present before and after it with
\* no structural change, evicts the Record of a removed record, and never
\* creates a Record; in-place diffs go to the existing Records only; an
\* access after eviction creates a Record the id never had before.
RecordIdentityAcrossDiffs ==
    [][/\ DiffStep =>
            /\ \A r \in DRecs :
                 (r \in dRecs \cap dRecs' /\ r \notin MarkedInStep) => dWrappers'[r] = dWrappers[r]
            /\ \A r \in MarkedInStep \ dRecs' : dWrappers'[r] = NoWrapper
            /\ \A r \in DRecs : dWrappers[r] = NoWrapper => dWrappers'[r] = NoWrapper
            /\ dForwarded' \subseteq {<<r, dWrappers[r]>> : r \in {x \in DRecs : dWrappers[x] # NoWrapper}}
            /\ dMeta => \A r \in ChangedInPlaceInStep :
                          dWrappers[r] # NoWrapper => <<r, dWrappers[r]>> \in dForwarded'
       /\ \A r \in DRecs :
            (dGets' = dGets + 1 /\ dWrappers[r] = NoWrapper /\ dWrappers'[r] # NoWrapper)
              => dWrappers'[r] \notin dEver[r]]_vars

\* A record removed and re-added by diffs got a second Record on access.
WitnessC15 ==
    \E r \in DRecs :
        /\ Cardinality(dEver[r]) = 2
        /\ dWrappers[r] # NoWrapper
        /\ DirtyEntry(r, TRUE, <<>>) \in Range(dLastDiff)
        /\ r \in dRecs

\* C16: getRecordByIdIfExists fails its assertion when record metadata is not
\* loaded; otherwise it returns null for an id not in the record map, the
\* cached Record for a known id that has one, and else a new Record that it
\* caches.
GetRecordByIdIfExistsMemoized ==
    [][dGets' = dGets + 1 =>
         LET r == dLastGet'.id IN
         IF ~dMeta THEN dLastGet'.kind = "assert" /\ dWrappers' = dWrappers
         ELSE IF r \notin dRecs THEN dLastGet'.kind = "null" /\ dWrappers' = dWrappers
         ELSE /\ dLastGet'.kind = "record"
              /\ dWrappers'[r] = dLastGet'.wrapper
              /\ dWrappers[r] # NoWrapper => dWrappers' = dWrappers
              /\ dWrappers[r] = NoWrapper =>
                   /\ \A x \in DRecs : dLastGet'.wrapper \notin dEver[x]
                   /\ dWrappers' = [dWrappers EXCEPT ![r] = dLastGet'.wrapper]]_vars

\* A second access to a known record returned the Record cached by the first.
WitnessC16 ==
    /\ dLastGet.kind = "record"
    /\ dLastGet.cached
    /\ dGets = MaxGets

\* C17: a completing batch marks all its fields loaded, clears their pending
\* promises and broadcasts its changed keys, whatever their retain counts.
CompletionMarksLoadedWithoutRecheck ==
    [][\A b \in CallIds :
         (bst[b] = "inflight" /\ bst'[b] = "done") =>
            /\ \A f \in Range(bfields[b]) : loaded'[f] /\ pending'[f] = NoBatch
            /\ broadcast' = ChangedKeys(bfields[b])]_vars

\* A batch completed after its field was released and unloaded by a timer.
WitnessC17 ==
    \E b \in CallIds : \E f \in Range(bfields[b]) :
        /\ bst[b] = "done"
        /\ loaded[f] /\ retain[f] = 0 /\ unsubCalls[f] > 0
        /\ WatchableCellValuesInFieldKeyPrefix \o f \in Range(broadcast)

\* Sum over the key lists of the outstanding watches of the retain units
\* their keys map to for field f.
RECURSIVE WatchedUnits(_, _)
WatchedUnits(f, kls) ==
    IF kls = {} THEN 0
    ELSE LET kl == CHOOSE x \in kls : TRUE
         IN watchCount[kl] * Count(GetFieldIdsToLoadFromWatchableKeys(ValidKeys(kl)), f)
            + WatchedUnits(f, kls \ {kl})

\* C19: watch retains F for each accepted 'cellValuesInField:F' key and the
\* primary field for each accepted 'records' / 'recordIds' key, and unwatch of
\* the same keys releases the same field ids: every retain count equals the
\* units of the outstanding watches, so it is back to zero once every watch
\* is matched by an unwatch.
WatchUnwatchBalanced ==
    /\ \A f \in Fields : retain[f] = WatchedUnits(f, KeyLists)
    /\ (\A kl \in KeyLists : watchCount[kl] = 0) => \A f \in Fields : retain[f] = 0

\* Every watch, one of them on 'records' and 'recordIds', has been unwatched.
WitnessC19 ==
    /\ \A kl \in KeyLists : watchCount[kl] = 0
    /\ releasedTotal[PrimaryFieldId] >= 2
    /\ nLoads = MaxLoads

\* C20: under fair timers and load completion, a field whose retain count is
\* zero from some point on is eventually unloaded for good.
ZeroRetainFieldEventuallyUnloaded ==
    \A f \in Fields : (<>[](retain[f] = 0)) => <>[](~loaded[f])

\* C21: unsubscribeFromCellValuesInFields is issued for a field only when a
\* fetch-and-subscribe for it has completed and none is still in flight.
UnsubscribeOnlyCompletedSubscriptions ==
    [][\A f \in Fields :
         unsubCalls'[f] > unsubCalls[f] =>
            /\ ~\E b \in CallIds : bst[b] = "inflight" /\ f \in Range(bfields[b])
            /\ \E b \in CallIds : bst[b] = "done" /\ f \in Range(bfields[b])]_vars

====
